---- MODULE Spec2Model ----
(***************************************************************************)
(* CFTest.py: a bounded-concurrency scan of candidate addresses with an    *)
(* early stop at a quota of matches, followed by a sorted, grouped report. *)
(*                                                                         *)
(* Strings are sequences of one-character strings.  A dotted-quad address  *)
(* string "a.b.c.d" is the tuple of its four octets <<a, b, c, d>>.        *)
(* Python None is <<>> where the value is a list or a tuple (args.d,       *)
(* target_colos, a future's result) and NoneStr where it is a string.      *)
(***************************************************************************)
EXTENDS Integers, Sequences, FiniteSets, TLC

\* ------------------------------------------------------------ bounds ----
MaxIPs == 2        \* largest candidate pool
MaxCap == 2        \* largest value of the configured thread cap
MaxQuota == 2      \* largest -i value
MaxMatches == 4    \* longest match list the aggregation is run on

\* ------------------------------------------------- strings of Python ----
NoneStr == <<"None">>

Min(a, b) == IF a <= b THEN a ELSE b

\* ord() of the characters the model uses
Ord(c) ==
  CASE c = "\n" -> 10
    [] c = " " -> 32
    [] c = "=" -> 61
    [] c = "A" -> 65
    [] c = "B" -> 66
    [] c = "a" -> 97
    [] c = "b" -> 98
    [] c = "c" -> 99
    [] c = "h" -> 104
    [] c = "l" -> 108
    [] c = "o" -> 111
    [] OTHER -> 120

\* str.upper() on one character
UpperChar(c) ==
  CASE c = "a" -> "A"
    [] c = "b" -> "B"
    [] c = "c" -> "C"
    [] c = "h" -> "H"
    [] c = "l" -> "L"
    [] c = "o" -> "O"
    [] c = "x" -> "X"
    [] OTHER -> c

\* str.upper()
Upper(s) == [i \in 1..Len(s) |-> UpperChar(s[i])]

\* str < str of Python: lexicographic on code points
RECURSIVE StrLess(_, _)
StrLess(a, b) ==
  IF b = <<>> THEN FALSE
  ELSE IF a = <<>> THEN TRUE
  ELSE IF Ord(Head(a)) # Ord(Head(b)) THEN Ord(Head(a)) < Ord(Head(b))
  ELSE StrLess(Tail(a), Tail(b))

\* str.split(sep) with a one-character separator: the fields between the
\* separators, one more than there are separators
Split(s, sep) ==
  LET at == {i \in 1..Len(s) : s[i] = sep}
      \* the k-th separator; 0 and Len(s) + 1 stand for the two ends
      pos(k) == IF k = 0 THEN 0
                ELSE IF k > Cardinality(at) THEN Len(s) + 1
                ELSE CHOOSE i \in at : Cardinality({j \in at : j <= i}) = k
  IN [k \in 1..(Cardinality(at) + 1) |-> SubSeq(s, pos(k - 1) + 1, pos(k) - 1)]

\* str.splitlines(): no empty last line after a final line break
SplitLines(text) ==
  LET parts == Split(text, "\n")
  IN IF parts[Len(parts)] = <<>> THEN SubSeq(parts, 1, Len(parts) - 1) ELSE parts

IsSpace(c) == c \in {" ", "\n"}

\* str.strip(): from the first to the last character that is no whitespace
Strip(s) ==
  LET keep == {i \in 1..Len(s) : ~IsSpace(s[i])}
  IN IF keep = {} THEN <<>>
     ELSE SubSeq(s, CHOOSE i \in keep : \A j \in keep : i <= j,
                    CHOOSE i \in keep : \A j \in keep : i >= j)

\* str.startswith(prefix)
StartsWith(s, prefix) ==
  Len(s) >= Len(prefix) /\ SubSeq(s, 1, Len(prefix)) = prefix

\* x in list
InList(x, list) == \E i \in 1..Len(list) : list[i] = x

SeqToSet(s) == {s[i] : i \in 1..Len(s)}

\* all orders of a finite set, as sequences
Orders(S) ==
  {f \in [1..Cardinality(S) -> S] : \A i, j \in 1..Cardinality(S) : i # j => f[i] # f[j]}

\* -------------------------------------------------- addresses, ranges ----
\* str(ipaddress.IPv4Address(n))
IpStr(n) == <<n \div 16777216, (n \div 65536) % 256, (n \div 256) % 256, n % 256>>

\* ipaddress.IPv4Address("a.b.c.d") as the sort key: the 32-bit value
IPv4Address(s) == ((s[1] * 256 + s[2]) * 256 + s[3]) * 256 + s[4]

\* IPv4Address(ip) raises ValueError unless ip is four octets
IsValidIPv4(s) == Len(s) = 4 /\ \A i \in 1..4 : s[i] \in 0..255

\* 1.1.1.0, the first address of the ranges the model serves
Base == IPv4Address(<<1, 1, 1, 0>>)

RECURSIVE Pow2(_)
Pow2(n) == IF n = 0 THEN 1 ELSE 2 * Pow2(n - 1)

\* a line "a.b.c.d/p" of the range list
Cidr(k, p) == [addr |-> Base + k, prefix |-> p]

is_valid_ipv4_range(line) ==
  /\ line.prefix \in 0..32
  /\ line.addr % Pow2(32 - line.prefix) = 0       \* strict=True: no host bits

\* the list of address strings of one range, in address order
expand_ip_range(range) ==
  IF is_valid_ipv4_range(range)
  THEN [i \in 1..Pow2(32 - range.prefix) |-> IpStr(range.addr + i - 1)]
  ELSE <<>>

\* the lines fetch_ip_ranges keeps
RECURSIVE fetch_ip_ranges(_)
fetch_ip_ranges(lines) ==
  IF lines = <<>> THEN <<>>
  ELSE (IF is_valid_ipv4_range(Head(lines)) THEN <<Head(lines)>> ELSE <<>>)
         \o fetch_ip_ranges(Tail(lines))

\* all_ips after the extend loop
RECURSIVE ExpandAll(_)
ExpandAll(ranges) ==
  IF ranges = <<>> THEN <<>>
  ELSE expand_ip_range(Head(ranges)) \o ExpandAll(Tail(ranges))

\* ------------------------------------------------------- the prober ----
ColoKey == <<"c", "o", "l", "o", "=">>

\* lines 74-78: the stripped second '='-field of the first line that starts
\* with 'colo=', or None
ExtractColo(text) ==
  LET lines == SplitLines(text)
      hits == {i \in 1..Len(lines) : StartsWith(lines[i], ColoKey)}
  IN IF hits = {} THEN NoneStr
     ELSE LET i == CHOOSE j \in hits : \A k \in hits : j <= k
          IN Strip(Split(lines[i], "=")[2])

\* ---------------------------------- the answers of the trace endpoints ----
\* the text "colo=<code>"
ColoLine(code) == ColoKey \o code

\* an answer of the trace endpoint: its body, and the location code the
\* endpoint reports in it (NoneStr when it reports none)
OkResp(text, code) == [ok |-> TRUE, text |-> text, code |-> code]
\* connection refused, timeout or HTTP error: requests raises
FailResp == [ok |-> FALSE, text |-> <<>>, code |-> NoneStr]

NL == <<"\n">>
TraceA == OkResp(<<"h", "=", "x">> \o NL \o ColoLine(<<"A">>) \o NL, <<"A">>)
TraceB == OkResp(ColoLine(<<"B">>), <<"B">>)

\* the answers a scan of the model meets
ScanResponses == {TraceA, TraceB}

\* the answers the prober is tried on
ProbeResponses ==
  { FailResp,
    OkResp(<<>>, NoneStr),
    OkResp(<<"h", "=", "x">> \o NL, NoneStr),
    TraceA,
    OkResp(ColoLine(<<"a">>), <<"a">>),
    OkResp(ColoLine(<<>>) \o NL, NoneStr),
    OkResp(ColoLine(<<" ", "B", " ">>) \o NL, <<"B">>),
    OkResp(ColoLine(<<"B">>) \o NL \o ColoLine(<<"A">>) \o NL, <<"B">>),
    OkResp(<<"h">> \o ColoLine(<<"A">>) \o NL, NoneStr) }

Responses == ScanResponses \cup ProbeResponses

\* lines 74-78 on each answer: colo after the for loop
ColoOf == [r \in Responses |-> ExtractColo(r.text)]

\* no target filter
RejectedNever(colo, targets) == FALSE

\* line 81: target_colos and colo not in target_colos
Rejected(colo, targets) == targets # <<>> /\ ~InList(colo, targets)

\* lines 70-86 of check_ip_location: what the call returns once the response
\* (or the transport failure) is in; <<>> is None
ProbeOutcome(ip, resp, targets) ==
  IF ~resp.ok THEN <<>>
  ELSE IF Rejected(ColoOf[resp], targets) THEN <<>>
  ELSE IF ColoOf[resp] # NoneStr /\ ColoOf[resp] # <<>> THEN <<ip, ColoOf[resp]>>
  ELSE <<>>

\* line 97
UpperAll(codes) == [i \in 1..Len(codes) |-> Upper(codes[i])]

\* --------------------------------------------------- the aggregation ----
\* lines 169-170
Truncate(m, q) == IF Len(m) > q THEN SubSeq(m, 1, q) ELSE m

\* list.sort(key=...): stable, ascending by the address value
RECURSIVE InsertByAddress(_, _)
InsertByAddress(x, sorted) ==
  IF sorted = <<>> THEN <<x>>
  ELSE IF IPv4Address(x[1]) < IPv4Address(Head(sorted)[1])
       THEN <<x>> \o sorted
       ELSE <<Head(sorted)>> \o InsertByAddress(x, Tail(sorted))

RECURSIVE SortByAddress(_)
SortByAddress(m) ==
  IF m = <<>> THEN <<>>
  ELSE InsertByAddress(m[Len(m)], SortByAddress(SubSeq(m, 1, Len(m) - 1)))

\* the list left in completion order
SortNone(m) == m

\* line 173
SortMatches(m) == SortByAddress(m)

\* lines 176-178: colo_groups[colo], the addresses of one code in list order
RECURSIVE GroupOf(_, _)
GroupOf(m, colo) ==
  IF m = <<>> THEN <<>>
  ELSE (IF Head(m)[2] = colo THEN <<Head(m)[1]>> ELSE <<>>) \o GroupOf(Tail(m), colo)

\* sorted(colo_groups.keys())
RECURSIVE SortedKeys(_)
SortedKeys(S) ==
  IF S = {} THEN <<>>
  ELSE LET least == CHOOSE c \in S : \A d \in S : d = c \/ StrLess(c, d)
       IN <<least>> \o SortedKeys(S \ {least})

\* enumerate(ips) without the start value
GroupLinesFromZero(ips, colo) ==
  [idx \in 1..Len(ips) |-> [ip |-> ips[idx], colo |-> colo, idx |-> idx - 1]]

\* lines 183-185: the lines written for one code, "<ip>#<colo> <idx>"
GroupLines(ips, colo) ==
  [idx \in 1..Len(ips) |-> [ip |-> ips[idx], colo |-> colo, idx |-> idx]]

RECURSIVE WriteGroups(_, _)
WriteGroups(m, keys) ==
  IF keys = <<>> THEN <<>>
  ELSE GroupLines(GroupOf(m, Head(keys)), Head(keys)) \o WriteGroups(m, Tail(keys))

\* lines 176-185: the content of the output file for a sorted match list
ReportLines(m) == WriteGroups(m, SortedKeys({m[i][2] : i \in 1..Len(m)}))

\* ------------------------------------------------------------ state ----
VARIABLES
  \* the inputs: the command line, the configured cap, the world
  args_i,                  \* -i
  args_d,                  \* -d, <<>> when absent
  MAX_CONCURRENT_THREADS,  \* line 1
  range_text,              \* the lines the range URL serves
  response,                \* address string -> what its trace endpoint answers
  \* main()
  pc, exit_code, target_colos, max_count, ip_ranges, all_ips, max_workers,
  futures, total, completed, matched_results, done, cancel_i, output,
  \* threading.Event
  stop_event,
  \* ThreadPoolExecutor and its futures (future k probes all_ips[k]); the
  \* pool threads are interchangeable: unit_pc[k] is where the thread that
  \* runs call k stands
  fstate, fresult, work_queue, num_threads, unit_pc,
  \* history: what went over the network, what was printed
  fetched, probed, progress, collected,
  \* history of the race at the quota: the futures in the order their calls
  \* returned, how often line 149 counted each future, the calls that had
  \* sent their request and not returned when line 153 reached the quota and
  \* when line 158 set the flag
  finish_order, times_counted, flight_at_quota, flight_at_stop

inputs == <<args_i, args_d, MAX_CONCURRENT_THREADS, range_text, response>>
mainv == <<pc, exit_code, target_colos, max_count, ip_ranges, all_ips, max_workers,
           futures, total, completed, matched_results, done, cancel_i, output>>
poolv == <<fstate, fresult, work_queue, num_threads, unit_pc>>
histv == <<fetched, probed, progress, collected>>
racev == <<finish_order, times_counted, flight_at_quota, flight_at_stop>>
vars == <<inputs, mainv, stop_event, poolv, histv, racev>>

\* the calls a pool thread is inside
Executing == {f \in 1..Len(unit_pc) : unit_pc[f] \in {"l56", "l67", "l70", "l71"}}

\* the calls that have sent their request (line 70) and not returned
InFlight == {f \in 1..Len(unit_pc) : unit_pc[f] = "l71"}

\* the state before main() runs, for one choice of the inputs
InitState(in) ==
  /\ args_i = in.args_i
  /\ args_d = in.args_d
  /\ MAX_CONCURRENT_THREADS = in.cap
  /\ range_text = in.range_text
  /\ response = in.response
  /\ pc = "parse"
  /\ exit_code = 0
  /\ target_colos = <<>>
  /\ max_count = 0
  /\ ip_ranges = <<>>
  /\ all_ips = <<>>
  /\ max_workers = 0
  /\ futures = <<>>
  /\ total = 0
  /\ completed = 0
  /\ matched_results = <<>>
  /\ done = {}
  /\ cancel_i = 0
  /\ output = <<>>
  /\ stop_event = FALSE
  /\ fstate = <<>>
  /\ fresult = <<>>
  /\ work_queue = <<>>
  /\ num_threads = 0
  /\ unit_pc = <<>>
  /\ fetched = FALSE
  /\ probed = {}
  /\ progress = <<>>
  /\ collected = <<>>
  /\ finish_order = <<>>
  /\ times_counted = <<>>
  /\ flight_at_quota = {}
  /\ flight_at_stop = {}

\* ------------------------------------------------------------ main() ----
\* a quota test that lets zero through
ValidQuotaZero(n) == n >= 0

\* line 100
ValidQuota(n) == n > 0

\* a quota read one too high
ParseQuotaOffByOne(n) == n + 1

\* line 99
ParseQuota(n) == n

\* lines 94-104
ParseArgs ==
  /\ pc = "parse"
  /\ target_colos' = (IF args_d # <<>> THEN UpperAll(args_d) ELSE <<>>)
  /\ max_count' = ParseQuota(args_i)
  /\ IF ValidQuota(ParseQuota(args_i))
     THEN pc' = "fetch" /\ UNCHANGED exit_code
     ELSE pc' = "exit" /\ exit_code' = 1
  /\ UNCHANGED <<inputs, ip_ranges, all_ips, max_workers, futures, total, completed,
                 matched_results, done, cancel_i, output, stop_event, poolv, histv, racev>>

\* lines 110, 20-34: the GET succeeds
FetchOK ==
  /\ pc = "fetch"
  /\ fetched' = TRUE
  /\ ip_ranges' = fetch_ip_ranges(range_text)
  /\ pc' = "expand"
  /\ UNCHANGED <<inputs, exit_code, target_colos, max_count, all_ips, max_workers,
                 futures, total, completed, matched_results, done, cancel_i, output,
                 stop_event, poolv, probed, progress, collected, racev>>

\* lines 110, 35-37: the GET fails, sys.exit(1)
FetchFail ==
  /\ pc = "fetch"
  /\ fetched' = TRUE
  /\ pc' = "exit"
  /\ exit_code' = 1
  /\ UNCHANGED <<inputs, target_colos, max_count, ip_ranges, all_ips, max_workers,
                 futures, total, completed, matched_results, done, cancel_i, output,
                 stop_event, poolv, probed, progress, collected, racev>>

\* the list kept as it is, duplicates included
ListOfSetNoDedup(list) == {list}

\* line 120: list(set(all_ips)) holds each address once, in any order
ListOfSet(list) == Orders(SeqToSet(list))

\* lines 114-120
Expand ==
  /\ pc = "expand"
  /\ \E order \in ListOfSet(ExpandAll(ip_ranges)) : all_ips' = order
  /\ pc' = "executor"
  /\ UNCHANGED <<inputs, exit_code, target_colos, max_count, ip_ranges, max_workers,
                 futures, total, completed, matched_results, done, cancel_i, output,
                 stop_event, poolv, histv, racev>>

\* one thread per candidate, the cap forgotten
MaxWorkersNoCap(cap, n) == n

\* line 130
MaxWorkers(cap, n) == Min(cap, n)

\* lines 129-133: ThreadPoolExecutor raises ValueError for max_workers <= 0
CreateExecutor ==
  /\ pc = "executor"
  /\ stop_event' = FALSE
  /\ max_workers' = MaxWorkers(MAX_CONCURRENT_THREADS, Len(all_ips))
  /\ IF max_workers' <= 0
     THEN pc' = "crash" /\ exit_code' = 1
     ELSE pc' = "submit" /\ UNCHANGED exit_code
  /\ UNCHANGED <<inputs, target_colos, max_count, ip_ranges, all_ips, futures, total,
                 completed, matched_results, done, cancel_i, output, poolv, histv, racev>>

\* lines 134-137: one executor.submit; the pool starts a thread while it has
\* fewer than max_workers
Submit ==
  /\ pc = "submit"
  /\ Len(futures) < Len(all_ips)
  /\ LET f == Len(futures) + 1
     IN /\ futures' = Append(futures, f)
        /\ fstate' = Append(fstate, "PENDING")
        /\ fresult' = Append(fresult, <<>>)
        /\ work_queue' = Append(work_queue, f)
        /\ unit_pc' = Append(unit_pc, "queued")
        /\ times_counted' = Append(times_counted, 0)
  /\ num_threads' = (IF num_threads < max_workers THEN num_threads + 1 ELSE num_threads)
  /\ UNCHANGED <<inputs, pc, exit_code, target_colos, max_count, ip_ranges, all_ips,
                 max_workers, total, completed, matched_results, done, cancel_i, output,
                 stop_event, histv, finish_order, flight_at_quota, flight_at_stop>>

\* lines 139-141
InitLoop ==
  /\ pc = "submit"
  /\ Len(futures) = Len(all_ips)
  /\ total' = Len(futures)
  /\ completed' = 0
  /\ matched_results' = <<>>
  /\ pc' = "while"
  /\ UNCHANGED <<inputs, exit_code, target_colos, max_count, ip_ranges, all_ips,
                 max_workers, futures, done, cancel_i, output, stop_event, poolv, histv, racev>>

\* a loop that leaves before the last unit is consumed
LoopGuardOffByOne(c, t, m, q) == c + 1 < t /\ Len(m) < q

\* line 143
LoopGuard(c, t, m, q) == c < t /\ Len(m) < q

While ==
  /\ pc = "while"
  /\ pc' = (IF LoopGuard(completed, total, matched_results, max_count)
            THEN "wait" ELSE "shutdown")
  /\ UNCHANGED <<inputs, exit_code, target_colos, max_count, ip_ranges, all_ips,
                 max_workers, futures, total, completed, matched_results, done,
                 cancel_i, output, stop_event, poolv, histv, racev>>

IsDone(f) == fstate[f] \in {"FINISHED", "CANCELLED"}

\* wait(fs, return_when=FIRST_COMPLETED) returns once a future of fs is done
\* (at once for an empty fs)
WaitReturns(fs) == fs = <<>> \/ \E i \in 1..Len(fs) : IsDone(fs[i])

\* line 144: blocks until then, returns all the futures of the list that are done
Wait ==
  /\ pc = "wait"
  /\ WaitReturns(futures)
  /\ done' = {f \in SeqToSet(futures) : IsDone(f)}
  /\ pc' = "for"
  /\ UNCHANGED <<inputs, exit_code, target_colos, max_count, ip_ranges, all_ips,
                 max_workers, futures, total, completed, matched_results, cancel_i,
                 output, stop_event, poolv, histv, racev>>

\* a consumed future left in the list
RemoveNothing(list, x) == list

\* line 148, list.remove(x): drops the first occurrence
Remove(list, x) ==
  LET i == CHOOSE j \in 1..Len(list) : list[j] = x /\ \A k \in 1..(j - 1) : list[k] # x
  IN SubSeq(list, 1, i - 1) \o SubSeq(list, i + 1, Len(list))

\* lines 146-154: one round of the for loop (a set is iterated in any order);
\* future.result() of a cancelled future raises CancelledError
ForNext ==
  /\ pc = "for"
  /\ done # {}
  /\ \E f \in done :
       /\ done' = done \ {f}
       /\ IF InList(f, futures)
          THEN /\ futures' = Remove(futures, f)
               /\ completed' = completed + 1
               /\ times_counted' = [times_counted EXCEPT ![f] = @ + 1]
               /\ IF fstate[f] = "CANCELLED"
                  THEN /\ pc' = "crash" /\ exit_code' = 1
                       /\ UNCHANGED <<matched_results, flight_at_quota>>
                  ELSE /\ UNCHANGED exit_code
                       /\ IF fresult[f] # <<>>
                          THEN /\ matched_results' = Append(matched_results, fresult[f])
                               /\ flight_at_quota' =
                                    (IF Len(matched_results) + 1 = max_count
                                     THEN InFlight ELSE flight_at_quota)
                               /\ pc' = "quota"
                          ELSE UNCHANGED <<matched_results, pc, flight_at_quota>>
          ELSE UNCHANGED <<futures, completed, matched_results, pc, exit_code,
                           times_counted, flight_at_quota>>
  /\ UNCHANGED <<inputs, target_colos, max_count, ip_ranges, all_ips, max_workers,
                 total, cancel_i, output, stop_event, poolv, histv, finish_order,
                 flight_at_stop>>

\* a quota test that stops the scan one match early
QuotaReachedEarly(m, q) == Len(m) + 1 >= q

\* a quota test that never stops the scan
QuotaReachedNever(m, q) == FALSE

\* line 156
QuotaReached(m, q) == Len(m) >= q

CheckQuota ==
  /\ pc = "quota"
  /\ pc' = (IF QuotaReached(matched_results, max_count) THEN "set" ELSE "for")
  /\ UNCHANGED <<inputs, exit_code, target_colos, max_count, ip_ranges, all_ips,
                 max_workers, futures, total, completed, matched_results, done,
                 cancel_i, output, stop_event, poolv, histv, racev>>

\* line 158
SetStop ==
  /\ pc = "set"
  /\ stop_event' = TRUE
  /\ flight_at_stop' = InFlight
  /\ cancel_i' = 1
  /\ pc' = "cancel"
  /\ UNCHANGED <<inputs, exit_code, target_colos, max_count, ip_ranges, all_ips,
                 max_workers, futures, total, completed, matched_results, done,
                 output, poolv, histv, finish_order, times_counted, flight_at_quota>>

\* lines 159-160: Future.cancel() cancels a pending future only
CancelOne ==
  /\ pc = "cancel"
  /\ cancel_i <= Len(futures)
  /\ LET f == futures[cancel_i]
     IN fstate' = (IF fstate[f] = "PENDING"
                   THEN [fstate EXCEPT ![f] = "CANCELLED"] ELSE fstate)
  /\ cancel_i' = cancel_i + 1
  /\ UNCHANGED <<inputs, pc, exit_code, target_colos, max_count, ip_ranges, all_ips,
                 max_workers, futures, total, completed, matched_results, done,
                 output, stop_event, fresult, work_queue, num_threads, unit_pc, histv, racev>>

\* line 161
Break ==
  /\ pc = "cancel"
  /\ cancel_i > Len(futures)
  /\ pc' = "after"
  /\ UNCHANGED <<inputs, exit_code, target_colos, max_count, ip_ranges, all_ips,
                 max_workers, futures, total, completed, matched_results, done,
                 cancel_i, output, stop_event, poolv, histv, racev>>

\* the for loop has gone through done
ForEnd ==
  /\ pc = "for"
  /\ done = {}
  /\ pc' = "after"
  /\ UNCHANGED <<inputs, exit_code, target_colos, max_count, ip_ranges, all_ips,
                 max_workers, futures, total, completed, matched_results, done,
                 cancel_i, output, stop_event, poolv, histv, racev>>

ProgressInterval == 50

\* line 166
ProgressDue(c, t) == c % ProgressInterval = 0 \/ c = t

\* lines 163-167
AfterFor ==
  /\ pc = "after"
  /\ IF stop_event
     THEN pc' = "shutdown" /\ UNCHANGED progress
     ELSE /\ pc' = "while"
          /\ progress' = (IF ProgressDue(completed, total)
                          THEN Append(progress, completed) ELSE progress)
  /\ UNCHANGED <<inputs, exit_code, target_colos, max_count, ip_ranges, all_ips,
                 max_workers, futures, total, completed, matched_results, done,
                 cancel_i, output, stop_event, poolv, fetched, probed, collected, racev>>

\* a shutdown that does not join the workers
ShutdownNoWait(queue, executing) == TRUE

\* shutdown(wait=True) returns once the workers have taken every item left in
\* the queue and have ended
ShutdownReturns(queue, executing) == queue = <<>> /\ executing = {}

\* line 132, leaving the with block
Shutdown ==
  /\ pc = "shutdown"
  /\ ShutdownReturns(work_queue, Executing)
  /\ pc' = "truncate"
  /\ collected' = matched_results
  /\ UNCHANGED <<inputs, exit_code, target_colos, max_count, ip_ranges, all_ips,
                 max_workers, futures, total, completed, matched_results, done,
                 cancel_i, output, stop_event, poolv, fetched, probed, progress, racev>>

\* lines 169-170
TruncateStep ==
  /\ pc = "truncate"
  /\ matched_results' = Truncate(matched_results, max_count)
  /\ pc' = "sort"
  /\ UNCHANGED <<inputs, exit_code, target_colos, max_count, ip_ranges, all_ips,
                 max_workers, futures, total, completed, done, cancel_i, output,
                 stop_event, poolv, histv, racev>>

\* line 173
SortStep ==
  /\ pc = "sort"
  /\ matched_results' = SortMatches(matched_results)
  /\ pc' = "write"
  /\ UNCHANGED <<inputs, exit_code, target_colos, max_count, ip_ranges, all_ips,
                 max_workers, futures, total, completed, done, cancel_i, output,
                 stop_event, poolv, histv, racev>>

\* lines 176-187
WriteReport ==
  /\ pc = "write"
  /\ output' = ReportLines(matched_results)
  /\ pc' = "done"
  /\ UNCHANGED <<inputs, exit_code, target_colos, max_count, ip_ranges, all_ips,
                 max_workers, futures, total, completed, matched_results, done,
                 cancel_i, stop_event, poolv, histv, racev>>

MainStep ==
  \/ ParseArgs \/ FetchOK \/ FetchFail \/ Expand \/ CreateExecutor \/ Submit
  \/ InitLoop \/ While \/ Wait \/ ForNext \/ CheckQuota \/ SetStop \/ CancelOne
  \/ Break \/ ForEnd \/ AfterFor \/ Shutdown \/ TruncateStep \/ SortStep
  \/ WriteReport

\* ------------------------------------------------- the worker threads ----
\* the future's set_result: call f of check_ip_location has returned r
Finish(f, r) ==
  /\ fstate' = [fstate EXCEPT ![f] = "FINISHED"]
  /\ fresult' = [fresult EXCEPT ![f] = r]
  /\ unit_pc' = [unit_pc EXCEPT ![f] = "returned"]
  /\ finish_order' = Append(finish_order, f)

\* _worker: a thread that is not inside a call takes the next work item; a
\* cancelled one is dropped, any other becomes RUNNING
WorkerTake(f) ==
  /\ Cardinality(Executing) < num_threads
  /\ work_queue # <<>>
  /\ f = Head(work_queue)
  /\ work_queue' = Tail(work_queue)
  /\ IF fstate[f] = "CANCELLED"
     THEN /\ unit_pc' = [unit_pc EXCEPT ![f] = "dropped"]
          /\ UNCHANGED fstate
     ELSE /\ fstate' = [fstate EXCEPT ![f] = "RUNNING"]
          /\ unit_pc' = [unit_pc EXCEPT ![f] = "l56"]
  /\ UNCHANGED <<inputs, mainv, stop_event, fresult, num_threads, histv, racev>>

\* lines 56-63
WorkerCheck1(f) ==
  /\ unit_pc[f] = "l56"
  /\ IF stop_event \/ ~IsValidIPv4(all_ips[f])
     THEN Finish(f, <<>>)
     ELSE /\ unit_pc' = [unit_pc EXCEPT ![f] = "l67"]
          /\ UNCHANGED <<fstate, fresult, finish_order>>
  /\ UNCHANGED <<inputs, mainv, stop_event, work_queue, num_threads, histv,
                 times_counted, flight_at_quota, flight_at_stop>>

\* lines 67-68
WorkerCheck2(f) ==
  /\ unit_pc[f] = "l67"
  /\ IF stop_event
     THEN Finish(f, <<>>)
     ELSE /\ unit_pc' = [unit_pc EXCEPT ![f] = "l70"]
          /\ UNCHANGED <<fstate, fresult, finish_order>>
  /\ UNCHANGED <<inputs, mainv, stop_event, work_queue, num_threads, histv,
                 times_counted, flight_at_quota, flight_at_stop>>

\* line 70: requests.get sends the request
WorkerRequest(f) ==
  /\ unit_pc[f] = "l70"
  /\ probed' = probed \cup {f}
  /\ unit_pc' = [unit_pc EXCEPT ![f] = "l71"]
  /\ UNCHANGED <<inputs, mainv, stop_event, fstate, fresult, work_queue, num_threads,
                 fetched, progress, collected, racev>>

\* lines 70-86: the answer (or the failure) is in, within the timeout
WorkerResponse(f) ==
  /\ unit_pc[f] = "l71"
  /\ Finish(f, ProbeOutcome(all_ips[f], response[all_ips[f]], target_colos))
  /\ UNCHANGED <<inputs, mainv, stop_event, work_queue, num_threads, histv,
                 times_counted, flight_at_quota, flight_at_stop>>

WorkerStep(f) ==
  \/ WorkerTake(f) \/ WorkerCheck1(f) \/ WorkerCheck2(f) \/ WorkerRequest(f)
  \/ WorkerResponse(f)

Next == MainStep \/ \E f \in 1..Len(unit_pc) : WorkerStep(f)

\* ----------------------------------------------------------- inputs ----
\* the range list served for a pool of n addresses 1.1.1.0 .. : a line with
\* host bits set, then ranges that overlap
RangeText(n) ==
  <<Cidr(1, 31)>> \o
  [i \in 1..n |-> Cidr(i - 1, IF (i - 1) % 2 = 0 /\ i < n THEN 31 ELSE 32)]

Pool(n) == SeqToSet(ExpandAll(fetch_ip_ranges(RangeText(n))))

ScanTargets == {<<>>, << <<"a">> >>}

ScanInputs ==
  UNION {
    {[args_i |-> i, args_d |-> d, cap |-> c, range_text |-> RangeText(n), response |-> r] :
       i \in (0 - 1)..MaxQuota, d \in ScanTargets, c \in 1..MaxCap,
       r \in [Pool(n) -> ScanResponses]} : n \in 0..MaxIPs}

Init == \E in \in ScanInputs : InitState(in)

Spec == Init /\ [][Next]_vars

\* a thread that can take a step is scheduled, and every request ends within
\* its timeout: while some step is possible, a step is taken
FairSpec == Spec /\ WF_vars(Next)

\* --- the prober on many answers: a scan of 1.1.1.0 and 1.1.1.1, where
\* 1.1.1.0 answers in any of the ways below and 1.1.1.1 answers TraceA

ProbeTargets ==
  { <<>>, << <<"a">> >>, << <<"A">>, <<"b">> >>, << <<>> >> }

ProbeInputs ==
  {[args_i |-> i, args_d |-> d, cap |-> c, range_text |-> RangeText(2),
    response |-> [ip \in Pool(2) |-> IF ip = IpStr(Base) THEN r ELSE TraceA]] :
     i \in 1..MaxQuota, d \in ProbeTargets, c \in 1..MaxCap, r \in ProbeResponses}

InitProbe == \E in \in ProbeInputs : InitState(in)

SpecProbe == InitProbe /\ [][Next]_vars

\* --- the aggregation on many match lists: lines 169-185 started on a list
\* of at most max_count matches with distinct addresses, as the loop leaves
\* it; what the aggregation does not read is as at the start
AggCodes == {<<"A", "B">>, <<"A", "a">>}
AggAddresses == {IpStr(Base + k) : k \in 0..(MaxMatches - 1)}

MatchLists ==
  UNION {
    {m \in [1..n -> AggAddresses \X AggCodes] :
       \A i, j \in 1..n : i # j => m[i][1] # m[j][1]} : n \in 0..MaxMatches}

InitAgg ==
  \E m \in MatchLists : \E q \in 1..MaxMatches :
    /\ Len(m) <= q
    /\ args_i = q
    /\ args_d = <<>>
    /\ MAX_CONCURRENT_THREADS = 1
    /\ range_text = <<>>
    /\ response = <<>>
    /\ pc = "truncate"
    /\ exit_code = 0
    /\ target_colos = <<>>
    /\ max_count = q
    /\ ip_ranges = <<>>
    /\ all_ips = <<>>
    /\ max_workers = 0
    /\ futures = <<>>
    /\ total = 0
    /\ completed = 0
    /\ matched_results = m
    /\ done = {}
    /\ cancel_i = 0
    /\ output = <<>>
    /\ stop_event = FALSE
    /\ fstate = <<>>
    /\ fresult = <<>>
    /\ work_queue = <<>>
    /\ num_threads = 0
    /\ unit_pc = <<>>
    /\ fetched = FALSE
    /\ probed = {}
    /\ progress = <<>>
    /\ collected = m
    /\ finish_order = <<>>
    /\ times_counted = <<>>
    /\ flight_at_quota = {}
    /\ flight_at_stop = {}

NextAgg == TruncateStep \/ SortStep \/ WriteReport

SpecAgg == InitAgg /\ [][NextAgg]_vars

\* --- the progress line on a pool of more than ProgressInterval candidates:
\* the loop of lines 143-167 on a pool of ProgressInterval + 1 addresses none
\* of which answers, taken up at the while test with the first
\* ProgressInterval - 2 futures finished and consumed and the last three
\* still queued (no progress line is due below ProgressInterval)
ProgressPool == ProgressInterval + 1
ProgressConsumed == ProgressInterval - 2

\* 1.1.1.0/27, 1.1.1.32/28, 1.1.1.48/31, 1.1.1.50/32
ProgressRanges == <<Cidr(0, 27), Cidr(32, 28), Cidr(48, 31), Cidr(50, 32)>>

\* lines 146-153 run over a whole batch none of whose futures carries a
\* result (no append, no break): the order of the set makes no difference
ForNoMatch ==
  /\ pc = "for"
  /\ \A f \in done : fstate[f] = "FINISHED" /\ fresult[f] = <<>>
  /\ LET hit == {f \in done : InList(f, futures)}
     IN /\ futures' = SelectSeq(futures, LAMBDA f : f \notin hit)
        /\ completed' = completed + Cardinality(hit)
        /\ times_counted' =
             [f \in 1..Len(times_counted) |->
                IF f \in hit THEN times_counted[f] + 1 ELSE times_counted[f]]
  /\ done' = {}
  /\ pc' = "after"
  /\ UNCHANGED <<inputs, exit_code, target_colos, max_count, ip_ranges, all_ips,
                 max_workers, total, matched_results, cancel_i, output, stop_event,
                 poolv, histv, finish_order, flight_at_quota, flight_at_stop>>

InitProgress ==
  \E cap \in 1..MaxCap :
    /\ args_i = 1
    /\ args_d = <<>>
    /\ MAX_CONCURRENT_THREADS = cap
    /\ range_text = ProgressRanges
    /\ response = [ip \in SeqToSet(ExpandAll(ProgressRanges)) |-> FailResp]
    /\ pc = "while"
    /\ exit_code = 0
    /\ target_colos = <<>>
    /\ max_count = 1
    /\ ip_ranges = fetch_ip_ranges(ProgressRanges)
    /\ all_ips = ExpandAll(ProgressRanges)
    /\ max_workers = MaxWorkers(cap, ProgressPool)
    /\ futures = [i \in 1..(ProgressPool - ProgressConsumed) |-> ProgressConsumed + i]
    /\ total = ProgressPool
    /\ completed = ProgressConsumed
    /\ matched_results = <<>>
    /\ done = {}
    /\ cancel_i = 0
    /\ output = <<>>
    /\ stop_event = FALSE
    /\ fstate = [f \in 1..ProgressPool |->
                   IF f <= ProgressConsumed THEN "FINISHED" ELSE "PENDING"]
    /\ fresult = [f \in 1..ProgressPool |-> <<>>]
    /\ work_queue = [i \in 1..(ProgressPool - ProgressConsumed) |-> ProgressConsumed + i]
    /\ num_threads = MaxWorkers(cap, ProgressPool)
    /\ unit_pc = [f \in 1..ProgressPool |->
                    IF f <= ProgressConsumed THEN "returned" ELSE "queued"]
    /\ fetched = TRUE
    /\ probed = 1..ProgressConsumed
    /\ progress = <<>>
    /\ collected = <<>>
    /\ finish_order = [f \in 1..ProgressConsumed |-> f]
    /\ times_counted = [f \in 1..ProgressPool |->
                          IF f <= ProgressConsumed THEN 1 ELSE 0]
    /\ flight_at_quota = {}
    /\ flight_at_stop = {}

NextProgress ==
  \/ While \/ Wait \/ ForNoMatch \/ AfterFor \/ Shutdown \/ TruncateStep
  \/ SortStep \/ WriteReport
  \/ \E f \in 1..Len(unit_pc) : WorkerStep(f)

SpecProgress == InitProgress /\ [][NextProgress]_vars

\* ----------------------------------------------------------- claims ----
\* the futures whose candidate yields a match when probed
Matching ==
  {f \in 1..Len(all_ips) :
     ProbeOutcome(all_ips[f], response[all_ips[f]], target_colos) # <<>>}

AfterLoop == pc \in {"shutdown", "truncate", "sort", "write", "done"}

\* C1: at every point of a scan at most min(MAX_CONCURRENT_THREADS, number of
\* candidates) probe units are executing check_ip_location.
C1_ConcurrencyCap ==
  Cardinality(Executing) <= Min(MAX_CONCURRENT_THREADS, Len(all_ips))

\* C1 witness: the pool is larger than the cap, as many units as the cap
\* allows are executing and a unit is still queued.
C1_Witness ==
  /\ MAX_CONCURRENT_THREADS < Len(all_ips)
  /\ Cardinality(Executing) = MAX_CONCURRENT_THREADS
  /\ \E f \in 1..Len(fstate) : fstate[f] = "PENDING"

\* C2 as claimed: once the match list holds quota entries no probe unit
\* dispatches its request any more, under any interleaving.
C2_NoDispatchAfterQuota ==
  [][(max_count > 0 /\ Len(matched_results) >= max_count) => probed' = probed]_vars

\* C3: the final result holds exactly min(quota, M) entries, M the number of
\* candidates whose probe yields Matched; with M < quota the scan ends only
\* after every candidate has been probed and the result holds all M matches.
C3_ResultSize ==
  /\ pc \in {"sort", "write", "done"} =>
       Len(matched_results) = Min(max_count, Cardinality(Matching))
  /\ pc = "done" => Len(output) = Min(max_count, Cardinality(Matching))
  /\ (AfterLoop /\ Cardinality(Matching) < max_count) =>
       /\ completed = total
       /\ probed = 1..Len(all_ips)
  /\ (pc = "done" /\ Cardinality(Matching) < max_count) =>
       {<<output[i].ip, output[i].colo>> : i \in 1..Len(output)} =
         {ProbeOutcome(all_ips[f], response[all_ips[f]], target_colos) : f \in Matching}

\* C3 witness: a finished scan of a pool with some matches, fewer than quota.
C3_Witness ==
  /\ pc = "done"
  /\ Cardinality(Matching) \in 1..(max_count - 1)
  /\ Cardinality(Matching) < Len(all_ips)
  /\ Len(output) = Cardinality(Matching)

\* C4: the result set handed to the report writer has at most quota (-i)
\* entries, whatever the order in which the probes completed.
C4_AtMostQuota ==
  pc \in {"write", "done"} => Len(matched_results) <= args_i /\ Len(output) <= args_i

\* C4 witness: a report of quota lines from a pool with more matches than quota.
C4_Witness ==
  /\ pc = "done"
  /\ Cardinality(Matching) > args_i
  /\ Len(output) = args_i

\* C9: with a quota of zero or less the run ends in the fatal exit before the
\* range fetch, before any probe, and without a report.
C9_BadQuotaFatal ==
  (args_i <= 0 /\ pc # "parse") =>
     /\ pc = "exit"
     /\ exit_code = 1
     /\ ~fetched
     /\ probed = {}
     /\ fstate = <<>>
     /\ output = <<>>

\* C9 witness: the fatal exit taken for a quota of zero.
C9_Witness == args_i = 0 /\ pc = "exit" /\ exit_code = 1

\* the futures whose request was sent and whose call has returned
Probed == {f \in probed : fstate[f] = "FINISHED"}

\* C5: every pair of the match list and every line of the report carries a
\* non-empty location code, one of the target set when there is a target set;
\* without a target set every probed address whose answer reports a code is
\* matched, with that code.
C5_MatchesInTargetSet ==
  /\ \A i \in 1..Len(matched_results) :
       /\ matched_results[i][2] # <<>>
       /\ matched_results[i][2] # NoneStr
       /\ target_colos # <<>> => InList(matched_results[i][2], target_colos)
  /\ \A i \in 1..Len(output) :
       /\ output[i].colo # <<>>
       /\ output[i].colo # NoneStr
       /\ target_colos # <<>> => InList(output[i].colo, target_colos)
  /\ \A f \in Probed :
       (args_d = <<>> /\ response[all_ips[f]].code # NoneStr) =>
          fresult[f] = <<all_ips[f], response[all_ips[f]].code>>

\* C5 witness: with a target set, an answer outside it was probed and left
\* out, and an answer inside it is in the report.
C5_Witness ==
  /\ pc = "done"
  /\ target_colos # <<>>
  /\ Len(output) >= 1
  /\ \E f \in Probed :
       /\ response[all_ips[f]].code # NoneStr
       /\ ~InList(response[all_ips[f]].code, target_colos)
       /\ fresult[f] = <<>>

\* C6 as claimed: with a target set, a probe whose answer reports a code is
\* matched exactly when the uppercased code equals an uppercased target code.
C6_CaseInsensitive ==
  \A f \in Probed :
    (args_d # <<>> /\ response[all_ips[f]].code # NoneStr) =>
       ((fresult[f] # <<>>) <=>
          InList(Upper(response[all_ips[f]].code), UpperAll(args_d)))

\* C7: the report lists the codes in lexicographic order, the addresses of a
\* code in ascending numeric order, numbers the lines of each code 1, 2, ...
\* and holds every retained match exactly once.
C7_ReportOrder ==
  pc = "done" =>
    /\ \A i, j \in 1..Len(output) :
         i < j => \/ StrLess(output[i].colo, output[j].colo)
                  \/ /\ output[i].colo = output[j].colo
                     /\ IPv4Address(output[i].ip) < IPv4Address(output[j].ip)
    /\ \A i \in 1..Len(output) :
         output[i].idx =
           IF i > 1 /\ output[i - 1].colo = output[i].colo
           THEN output[i - 1].idx + 1 ELSE 1
    /\ Len(output) = Len(matched_results)
    /\ \A k \in 1..Len(matched_results) :
         Cardinality({i \in 1..Len(output) :
                        <<output[i].ip, output[i].colo>> = matched_results[k]}) = 1

\* C7 witness: a report of two codes, one of them with two addresses, from a
\* list that was not in address order.
C7_Witness ==
  /\ pc = "done"
  /\ collected # matched_results
  /\ \E i, j \in 1..Len(output) : output[i].colo # output[j].colo
  /\ \E i \in 1..Len(output) : output[i].idx = 2

\* the whole aggregation of lines 169-185 on a list
Aggregate(m, q) == ReportLines(SortMatches(Truncate(m, q)))

\* the lists that hold the pairs of m, in any order
Reorderings(m) ==
  {[i \in 1..Len(m) |-> m[p[i]]] : p \in Orders(1..Len(m))}

\* C10: aggregating the list again (as collected, or as the run left it)
\* gives the report again, and so does aggregating any reordering of a list
\* of at most quota pairs.
C10_OrderIndependent ==
  pc = "done" =>
    /\ Aggregate(collected, max_count) = output
    /\ Aggregate(matched_results, max_count) = output
    /\ Len(collected) <= max_count =>
         \A r \in Reorderings(collected) : Aggregate(r, max_count) = output

\* C10 witness: a report made from three or more matches that completed out
\* of address order.
C10_Witness ==
  /\ pc = "done"
  /\ Len(collected) >= 3
  /\ Len(collected) <= max_count
  /\ \E i \in 1..(Len(collected) - 1) :
       IPv4Address(collected[i][1]) > IPv4Address(collected[i + 1][1])
  /\ Len(output) = Len(collected)

\* the scan has ended in one of its two ways
EndedAtQuota == Len(collected) >= max_count /\ Executing = {}
EndedExhausted ==
  /\ Len(collected) < max_count
  /\ completed = total
  /\ \A f \in 1..Len(all_ips) : f \in probed /\ fstate[f] = "FINISHED"

\* C8: under fair scheduling, with every probe ending within its timeout, a
\* scan of a non-empty pool with a positive quota ends: with quota matches
\* and no unit executing, or with every candidate probed and fewer matches;
\* the coordinator never stays in wait().
C8_Terminates ==
  (pc \in {"submit", "wait"}) ~> (pc = "done" /\ (EndedAtQuota \/ EndedExhausted))

\* C8 witness: a scan that ended with every candidate probed while units
\* had run side by side.
C8_Witness ==
  /\ pc = "done"
  /\ Len(all_ips) >= 2
  /\ num_threads >= 2
  /\ EndedExhausted

\* C11 as claimed: a call that had sent its request when the flag was set
\* runs to its end and, when it returns a match, the match is in the match
\* list that reaches the truncation.
C11_InFlightAppended ==
  pc = "truncate" =>
    \A f \in flight_at_stop :
      /\ fstate[f] = "FINISHED"
      /\ fresult[f] # <<>> => InList(fresult[f], matched_results)

\* the call of f returned before the call of g
FinishedBefore(f, g) ==
  \E i, j \in 1..Len(finish_order) :
    i < j /\ finish_order[i] = f /\ finish_order[j] = g

\* the future that probed the address of a match
FutureOf(match) == CHOOSE f \in 1..Len(all_ips) : all_ips[f] = match[1]

\* C12 as claimed: the matches stand in the match list in the order in which
\* their calls returned, and when the scan stops at the quota no call that
\* returned a match before the call of a retained match is left out of the
\* result.
C12_EarliestKept ==
  pc = "done" =>
    /\ \A i, j \in 1..Len(collected) :
         i < j => FinishedBefore(FutureOf(collected[i]), FutureOf(collected[j]))
    /\ Len(collected) >= max_count =>
         \A f, g \in 1..Len(fresult) :
           (/\ InList(fresult[g], matched_results)
            /\ fresult[f] # <<>>
            /\ FinishedBefore(f, g)) => InList(fresult[f], matched_results)

\* C13: while the result is truncated, sorted and written, and after, no
\* call of check_ip_location is executing; every call that was in flight
\* when the flag was set has returned.
C13_JoinBeforeAggregation ==
  pc \in {"truncate", "sort", "write", "done"} =>
    /\ Executing = {}
    /\ \A f \in flight_at_stop : fstate[f] = "FINISHED"

\* C13 witness: the truncation about to run after a stop at the quota that
\* found a call in flight.
C13_Witness ==
  /\ pc = "truncate"
  /\ stop_event
  /\ flight_at_stop # {}

\* C14: at every point of a scan (the quota was accepted) the match list is
\* never longer than the quota plus the number of calls that were in flight
\* when the append of line 153 reached the quota.
C14_OvershootBound ==
  pc \notin {"parse", "exit"} =>
    Len(matched_results) <= max_count + Cardinality(flight_at_quota)

\* C14 witness: the quota has just been reached while a call was in flight.
C14_Witness ==
  /\ pc = "quota"
  /\ Len(matched_results) = max_count
  /\ flight_at_quota # {}

\* the futures that line 149 has counted
Counted == {f \in 1..Len(times_counted) : times_counted[f] >= 1}

\* the calls that returned without sending a request: every address of the
\* pool is a valid IPv4 address, so they saw the flag at line 56 or 67
ReturnedOnFlag == {f \in 1..Len(fstate) : fstate[f] = "FINISHED" /\ f \notin probed}

\* C15: completed is the number of distinct futures consumed, none of them
\* counted twice; once the loop is set up, completed plus the futures still
\* in the list is total; a call that returned on the flag is never counted.
C15_CompletedCount ==
  /\ \A f \in 1..Len(times_counted) : times_counted[f] <= 1
  /\ completed = Cardinality(Counted)
  /\ pc \notin {"parse", "exit", "fetch", "expand", "executor", "submit", "crash"} =>
       /\ completed + Len(futures) = total
       /\ Counted \cap SeqToSet(futures) = {}
  /\ Counted \cap ReturnedOnFlag = {}

\* C15 witness: a scan that stopped at the quota with a consumed future and
\* a call that returned on the flag.
C15_Witness ==
  /\ pc = "done"
  /\ completed >= 1
  /\ ReturnedOnFlag # {}

\* the address with value a lies in the range
Contains(range, a) ==
  range.addr <= a /\ a < range.addr + Pow2(32 - range.prefix)

\* the addresses around the ranges the model serves
AddressWindow == (Base - 1)..(Base + MaxIPs + 1)

\* the futures submitted for the address with value a
SubmittedFor(a) == {f \in 1..Len(fstate) : all_ips[f] = IpStr(a)}

\* C16: once every candidate is submitted, an address that lies in one or
\* more of the fetched ranges has exactly one future, an address in none of
\* them has no future, and every future probes an address of some range.
C16_EachAddressOnce ==
  pc \notin {"parse", "exit", "fetch", "expand", "executor", "submit", "crash"} =>
    /\ Len(fstate) = Len(all_ips)
    /\ \A a \in AddressWindow :
         Cardinality(SubmittedFor(a)) =
           IF \E i \in 1..Len(ip_ranges) : Contains(ip_ranges[i], a) THEN 1 ELSE 0
    /\ \A f \in 1..Len(fstate) :
         \E i \in 1..Len(ip_ranges) : Contains(ip_ranges[i], IPv4Address(all_ips[f]))

\* C16 witness: every candidate submitted for a list in which two ranges
\* hold the same address.
C16_Witness ==
  /\ pc = "while"
  /\ \E i, j \in 1..Len(ip_ranges) : \E a \in AddressWindow :
       i # j /\ Contains(ip_ranges[i], a) /\ Contains(ip_ranges[j], a)

\* C17: the flag changes only from clear to set, only in the step of main()
\* at line 158 and only with a match list of quota entries or more; that
\* step is never taken with the flag already set; a step of a call of
\* check_ip_location leaves completed, the match list and the flag alone.
C17_FlagDiscipline ==
  [][/\ stop_event' # stop_event =>
          /\ ~stop_event /\ stop_event'
          /\ pc = "set"
          /\ Len(matched_results) >= max_count
     /\ SetStop => ~stop_event
     /\ (\E f \in 1..Len(unit_pc) : WorkerStep(f)) =>
          UNCHANGED <<completed, matched_results, stop_event>>]_vars

\* C17 witness: a finished scan in which the flag was set at the quota and
\* a call read it and returned.
C17_Witness ==
  /\ pc = "done"
  /\ stop_event
  /\ Len(matched_results) = max_count
  /\ \E f \in ReturnedOnFlag : f \notin Counted

\* C18 as claimed: with an empty candidate pool the scan raises no error: it
\* goes on to an empty match list and an empty report.
C18_EmptyPoolEndsNormally ==
  (pc \notin {"parse", "fetch", "expand", "exit"} /\ all_ips = <<>>) =>
    /\ pc # "crash"
    /\ exit_code = 0
    /\ matched_results = <<>>
    /\ output = <<>>

\* C19 as claimed: a scan that did not stop early has printed the progress
\* line for every multiple of ProgressInterval that completed went through
\* and for completed = total, with strictly increasing counts.
C19_ProgressEveryInterval ==
  (pc = "done" /\ ~stop_event) =>
    /\ \A c \in 1..total :
         (c % ProgressInterval = 0 \/ c = total) => InList(c, progress)
    /\ \A i, j \in 1..Len(progress) : i < j => progress[i] < progress[j]

====
